---------------------------- MODULE Spec2Model ----------------------------
(***************************************************************************)
(* A model of SightRead's .chart front end (src/sightread/detail/chart.cpp) *)
(* as a state machine.  A text (std::string_view) is a sequence of          *)
(* one-character strings; positions are 0-based as in C++, and npos stands  *)
(* for std::string_view::npos.                                              *)
(***************************************************************************)
EXTENDS Integers, Sequences, FiniteSets, TLC

VARIABLES
    todo,      \* the texts still to be handed to parse_chart, in order
    results,   \* what each finished call of parse_chart gave: a Chart or a ParseError
    data,      \* parse_chart's `data`: the remainder of the text being parsed
    chart,     \* parse_chart's `chart.sections`
    section,   \* read_section's `section`
    pc,        \* where the running call stands
    src        \* how the texts were written (never read by the parser)

vars == <<todo, results, data, chart, section, pc, src>>

-----------------------------------------------------------------------------
(* Characters *)

VT == "<VT>"
Digit == {"0", "1", "2", "3", "4", "5", "6", "7", "8", "9"}
Upper == {"A", "B", "C", "D", "E", "F", "G", "H", "I", "J", "K", "L", "M",
          "N", "O", "P", "Q", "R", "S", "T", "U", "V", "W", "X", "Y", "Z"}
Lower == {"a", "b", "c", "d", "e", "f", "g", "h", "i", "j", "k", "l", "m",
          "n", "o", "p", "q", "r", "s", "t", "u", "v", "w", "x", "y", "z"}

DigitVal(c) ==
    CASE c = "0" -> 0 [] c = "1" -> 1 [] c = "2" -> 2 [] c = "3" -> 3
      [] c = "4" -> 4 [] c = "5" -> 5 [] c = "6" -> 6 [] c = "7" -> 7
      [] c = "8" -> 8 [] c = "9" -> 9

IntMax == 2147483647
IntMin == -IntMax - 1

npos == 2147483647

Min(a, b) == IF a <= b THEN a ELSE b

(* std::string_view members *)
RemovePrefix(s, n) == SubSeq(s, n + 1, Len(s))

Substr(s, pos, count) ==
    IF count >= Len(s) - pos THEN SubSeq(s, pos + 1, Len(s))
    ELSE SubSeq(s, pos + 1, pos + count)

\* size_t subtraction: a - b wraps round to a huge value when b > a
SizeMinus(a, b) == IF a >= b THEN a - b ELSE npos

FindChar(s, c) ==
    IF \E i \in 1..Len(s) : s[i] = c
    THEN (CHOOSE i \in 1..Len(s) : s[i] = c /\ \A j \in 1..(i - 1) : s[j] # c) - 1
    ELSE npos

FindCrLf(s) ==
    LET Hit(i) == s[i] = "\r" /\ s[i + 1] = "\n"
    IN  IF \E i \in 1..(Len(s) - 1) : Hit(i)
        THEN (CHOOSE i \in 1..(Len(s) - 1) : Hit(i) /\ \A j \in 1..(i - 1) : ~Hit(j)) - 1
        ELSE npos

FindFirstNotOf(s, set) ==
    IF \E i \in 1..Len(s) : s[i] \notin set
    THEN (CHOOSE i \in 1..Len(s) : s[i] \notin set /\ \A j \in 1..(i - 1) : s[j] \in set) - 1
    ELSE npos

-----------------------------------------------------------------------------
(* The line cursor *)

Whitespace == {" ", "\f", "\n", "\r", "\t", VT}

skip_whitespace(input) ==
    RemovePrefix(input, Min(FindFirstNotOf(input, Whitespace), Len(input)))

NoLinesLeft == "No lines left"

\* A mutant: an exhausted input yields an empty line instead of a ParseError.
break_off_newline_no_throw(input) ==
    IF input = << >> THEN [throws |-> FALSE, line |-> << >>, input |-> << >>]
    ELSE LET newline_location == Min(FindChar(input, "\n"), FindCrLf(input))
         IN  IF newline_location = npos
             THEN [throws |-> FALSE, line |-> input, input |-> << >>]
             ELSE [throws |-> FALSE,
                   line   |-> Substr(input, 0, newline_location),
                   input  |-> skip_whitespace(RemovePrefix(input, newline_location))]

\* A mutant: a last line without terminator is returned but not removed.
break_off_newline_keep_last(input) ==
    IF input = << >> THEN [throws |-> TRUE, what |-> NoLinesLeft]
    ELSE LET newline_location == Min(FindChar(input, "\n"), FindCrLf(input))
         IN  IF newline_location = npos
             THEN [throws |-> FALSE, line |-> input, input |-> input]
             ELSE [throws |-> FALSE,
                   line   |-> Substr(input, 0, newline_location),
                   input  |-> skip_whitespace(RemovePrefix(input, newline_location))]

\* The line returned, and the remainder left in `input`; or the ParseError thrown.
break_off_newline(input) ==
    IF input = << >> THEN [throws |-> TRUE, what |-> NoLinesLeft]
    ELSE LET newline_location == Min(FindChar(input, "\n"), FindCrLf(input))
         IN  IF newline_location = npos
             THEN [throws |-> FALSE, line |-> input, input |-> << >>]
             ELSE [throws |-> FALSE,
                   line   |-> Substr(input, 0, newline_location),
                   input  |-> skip_whitespace(RemovePrefix(input, newline_location))]

HeaderStringEmpty == "Header string empty"

strip_square_brackets(input) ==
    IF input = << >> THEN [throws |-> TRUE, what |-> HeaderStringEmpty]
    ELSE [throws |-> FALSE, value |-> Substr(input, 1, SizeMinus(Len(input), 2))]

-----------------------------------------------------------------------------
(* Numbers *)

nullopt == [has_value |-> FALSE]
Some(v) == [has_value |-> TRUE, value |-> v]

\* The digits at the front of s (the longest run).
RECURSIVE DigitRun(_)
DigitRun(s) ==
    IF s # << >> /\ s[1] \in Digit THEN <<s[1]>> \o DigitRun(Tail(s)) ELSE << >>

\* The value of a digit string while it stays <= IntMax: [ok, value], where on
\* overflow value is what had been accumulated before the digit that overflows.
RECURSIVE Accumulate(_, _)
Accumulate(ds, acc) ==
    IF ds = << >> THEN [ok |-> TRUE, value |-> acc]
    ELSE LET d == DigitVal(ds[1])
         IN  IF acc > (IntMax - d) \div 10 THEN [ok |-> FALSE, value |-> acc]
             ELSE Accumulate(Tail(ds), acc * 10 + d)

RECURSIVE StripZeros(_)
StripZeros(ds) == IF ds # << >> /\ ds[1] = "0" THEN StripZeros(Tail(ds)) ELSE ds

IntMinDigits == <<"2", "1", "4", "7", "4", "8", "3", "6", "4", "8">>

\* std::from_chars(first, last, int&): an optional '-', then digits.
\* [ec_ok, consumed, value]: consumed is p - first.
from_chars(s) ==
    LET neg    == s # << >> /\ s[1] = "-"
        body   == IF neg THEN Tail(s) ELSE s
        ds     == DigitRun(body)
        used   == Len(ds) + (IF neg THEN 1 ELSE 0)
        acc    == Accumulate(ds, 0)
    IN  IF ds = << >> THEN [ec_ok |-> FALSE, consumed |-> 0, value |-> 0]
        ELSE IF acc.ok
             THEN [ec_ok |-> TRUE, consumed |-> used,
                   value |-> IF neg THEN 0 - acc.value ELSE acc.value]
             ELSE IF neg /\ StripZeros(ds) = IntMinDigits
                  THEN [ec_ok |-> TRUE, consumed |-> used, value |-> IntMin]
                  ELSE [ec_ok |-> FALSE, consumed |-> used, value |-> 0]

\* A mutant: a partial parse is accepted (the p != last test is dropped).
string_view_to_int_partial(input) ==
    LET r == from_chars(input)
    IN  IF ~r.ec_ok THEN nullopt ELSE Some(r.value)

string_view_to_int(input) ==
    LET r == from_chars(input)
    IN  IF ~r.ec_ok \/ r.consumed # Len(input) THEN nullopt ELSE Some(r.value)

-----------------------------------------------------------------------------
(* The tokenizer *)

RECURSIVE split_by_space(_)
split_by_space(input) ==
    LET space_location == FindChar(input, " ")
    IN  IF space_location = npos THEN <<input>>
        ELSE <<Substr(input, 0, space_location)>>
                 \o split_by_space(RemovePrefix(input, space_location + 1))

-----------------------------------------------------------------------------
(* The lexy grammars.  Every production has whitespace = dsl::ascii::blank:   *)
(* blanks are skipped after each token.  A rule gives [ok, rest] and, for a   *)
(* rule that produces a value, value.                                         *)
(* The lines these grammars are given start with a digit or '-' (the caller   *)
(* has parsed token[0] as an int), so blanks before the first token never     *)
(* occur and are not modelled.                                                *)

Blank == {" ", "\t"}

\* A mutant: only spaces are skipped between tokens, not tabs.
skip_blank_spaces_only(s) == RemovePrefix(s, Min(FindFirstNotOf(s, {" "}), Len(s)))

skip_blank(s) == RemovePrefix(s, Min(FindFirstNotOf(s, Blank), Len(s)))

\* dsl::integer<int>: one or more digits.  A digit string beyond int raises
\* lexy::integer_overflow, but the rule recovers and still produces a value
\* (the one accumulated before the overflow), so the parse goes on.
dsl_integer(s) ==
    LET ds  == DigitRun(s)
        acc == Accumulate(ds, 0)
    IN  IF ds = << >> THEN [ok |-> FALSE, rest |-> s, value |-> 0, overflow |-> FALSE]
        ELSE [ok |-> TRUE, rest |-> skip_blank(RemovePrefix(s, Len(ds))),
              value |-> acc.value, overflow |-> ~acc.ok]

\* dsl::lit_c<c> and LEXY_LIT("..."): the literal's characters, in order.
dsl_lit(s, lit) ==
    IF Len(s) >= Len(lit) /\ SubSeq(s, 1, Len(lit)) = lit
    THEN [ok |-> TRUE, rest |-> skip_blank(RemovePrefix(s, Len(lit)))]
    ELSE [ok |-> FALSE, rest |-> s]

dsl_eof(s) == s = << >>

\* dsl::try_(dsl::integer<int>, dsl::nullopt): when the integer does not match,
\* the error is reported and the rule recovers, producing lexy::nullopt and
\* consuming nothing.
dsl_try_integer(s) ==
    LET i == dsl_integer(s)
    IN  IF i.ok THEN [ok |-> TRUE, rest |-> i.rest, value |-> Some(i.value)]
        ELSE [ok |-> TRUE, rest |-> s, value |-> nullopt]

\* lexy::_3 or 2
DefaultDenominator == 2

IdentifierChar == Upper \cup Lower \cup Digit \cup {"_"}

\* A mutant: the payload is any run of characters other than blanks.
rest_of_event_any(s) ==
    LET n == Min(FindFirstNotOf(s, {c \in {s[i] : i \in 1..Len(s)} : c \notin Blank}), Len(s))
    IN  IF n = 0 THEN [ok |-> FALSE, rest |-> s, value |-> << >>]
        ELSE [ok |-> TRUE, rest |-> skip_blank(RemovePrefix(s, n)),
              value |-> SubSeq(s, 1, n)]

\* grammar::rest_of_event: dsl::identifier(dsl::ascii::alnum / dsl::lit_c<'_'>)
rest_of_event(s) ==
    LET n == Min(FindFirstNotOf(s, IdentifierChar), Len(s))
    IN  IF n = 0 THEN [ok |-> FALSE, rest |-> s, value |-> << >>]
        ELSE [ok |-> TRUE, rest |-> skip_blank(RemovePrefix(s, n)),
              value |-> SubSeq(s, 1, n)]

\* lexy::parse's result: has_value, and the value when there is one.
NoValue == [has_value |-> FALSE]

\* grammar::note_event
note_event(line) ==
    LET p == dsl_integer(line)
        e == dsl_lit(p.rest, <<"=">>)
        t == dsl_lit(e.rest, <<"N">>)
        a == dsl_integer(t.rest)
        b == dsl_integer(a.rest)
    IN  IF p.ok /\ e.ok /\ t.ok /\ a.ok /\ b.ok /\ dsl_eof(b.rest)
        THEN Some([position |-> p.value, fret |-> a.value, length |-> b.value])
        ELSE NoValue

\* grammar::special_event
special_event(line) ==
    LET p == dsl_integer(line)
        e == dsl_lit(p.rest, <<"=">>)
        t == dsl_lit(e.rest, <<"S">>)
        a == dsl_integer(t.rest)
        b == dsl_integer(a.rest)
    IN  IF p.ok /\ e.ok /\ t.ok /\ a.ok /\ b.ok /\ dsl_eof(b.rest)
        THEN Some([position |-> p.value, key |-> a.value, length |-> b.value])
        ELSE NoValue

\* grammar::bpm_event
bpm_event(line) ==
    LET p == dsl_integer(line)
        e == dsl_lit(p.rest, <<"=">>)
        t == dsl_lit(e.rest, <<"B">>)
        a == dsl_integer(t.rest)
    IN  IF p.ok /\ e.ok /\ t.ok /\ a.ok /\ dsl_eof(a.rest)
        THEN Some([position |-> p.value, bpm |-> a.value])
        ELSE NoValue

\* A mutant: any tail after the numerator is dropped and the default is used.
ts_event_lenient(line) ==
    LET p == dsl_integer(line)
        e == dsl_lit(p.rest, <<"=">>)
        t == dsl_lit(e.rest, <<"T", "S">>)
        n == dsl_integer(t.rest)
    IN  IF p.ok /\ e.ok /\ t.ok /\ n.ok
        THEN Some([position |-> p.value, numerator |-> n.value,
                   denominator |-> DefaultDenominator])
        ELSE NoValue

\* grammar::ts_event
ts_event(line) ==
    LET p == dsl_integer(line)
        e == dsl_lit(p.rest, <<"=">>)
        t == dsl_lit(e.rest, <<"T", "S">>)
        n == dsl_integer(t.rest)
        d == dsl_try_integer(n.rest)
    IN  IF p.ok /\ e.ok /\ t.ok /\ n.ok /\ d.ok /\ dsl_eof(d.rest)
        THEN Some([position |-> p.value, numerator |-> n.value,
                   denominator |-> IF d.value.has_value THEN d.value.value
                                   ELSE DefaultDenominator])
        ELSE NoValue

\* grammar::event
event(line) ==
    LET p == dsl_integer(line)
        e == dsl_lit(p.rest, <<"=">>)
        t == dsl_lit(e.rest, <<"E">>)
        r == rest_of_event(t.rest)
    IN  IF p.ok /\ e.ok /\ t.ok /\ r.ok /\ dsl_eof(r.rest)
        THEN Some([position |-> p.value, data |-> r.value])
        ELSE NoValue

\* The ParseError a convert_line_to_* throws carries lexy's report.
LexyError == "lexy error"

Convert(result) ==
    IF ~result.has_value THEN [throws |-> TRUE, what |-> LexyError]
    ELSE [throws |-> FALSE, value |-> result.value]

convert_line_to_note(line) == Convert(note_event(line))
convert_line_to_special(line) == Convert(special_event(line))
convert_line_to_bpm(line) == Convert(bpm_event(line))
convert_line_to_timesig(line) == Convert(ts_event(line))
convert_line_to_event(line) == Convert(event(line))

-----------------------------------------------------------------------------
(* The section assembler *)

EmptySection ==
    [name |-> << >>, note_events |-> << >>, special_events |-> << >>,
     bpm_events |-> << >>, ts_events |-> << >>, events |-> << >>,
     key_value_pairs |-> << >>]

\* std::map's operator[] followed by an assignment.
MapPut(m, k, v) == [x \in (DOMAIN m) \cup {k} |-> IF x = k THEN v ELSE m[x]]

RECURSIVE Concat(_)
Concat(ss) == IF ss = << >> THEN << >> ELSE Head(ss) \o Concat(Tail(ss))

\* The pieces with one space between each two.
RECURSIVE JoinSpaces(_)
JoinSpaces(ss) ==
    IF ss = << >> THEN << >>
    ELSE IF Len(ss) = 1 THEN ss[1]
    ELSE ss[1] \o <<" ">> \o JoinSpaces(Tail(ss))

\* A mutant: the pieces of the value are joined with the spaces put back.
metadata_value_spaced(separated_line) ==
    JoinSpaces(SubSeq(separated_line, 3, Len(separated_line)))

\* value {separated_line[2]}, then every later piece appended.
metadata_value(separated_line) ==
    Concat(SubSeq(separated_line, 3, Len(separated_line)))

LineIncomplete == "Line incomplete"
NoOpenBrace == "Section does not open with {"

Stored(sec) == [throws |-> FALSE, section |-> sec]

\* What ends up in the typed lists for a line whose key is an int.
\* A mutant: a tag that is none of the five is a parse error.
dispatch_event_strict(sec, separated_line, next_line) ==
    LET tag == separated_line[3]
        Put(field, c) ==
            IF c.throws THEN c ELSE Stored([sec EXCEPT ![field] = Append(@, c.value)])
    IN  IF tag = <<"N">> THEN Put("note_events", convert_line_to_note(next_line))
        ELSE IF tag = <<"S">> THEN Put("special_events", convert_line_to_special(next_line))
        ELSE IF tag = <<"B">> THEN Put("bpm_events", convert_line_to_bpm(next_line))
        ELSE IF tag = <<"T", "S">> THEN Put("ts_events", convert_line_to_timesig(next_line))
        ELSE IF tag = <<"E">> THEN Put("events", convert_line_to_event(next_line))
        ELSE [throws |-> TRUE, what |-> LexyError]

dispatch_event(sec, separated_line, next_line) ==
    LET tag == separated_line[3]
        Put(field, c) ==
            IF c.throws THEN c ELSE Stored([sec EXCEPT ![field] = Append(@, c.value)])
    IN  IF tag = <<"N">> THEN Put("note_events", convert_line_to_note(next_line))
        ELSE IF tag = <<"S">> THEN Put("special_events", convert_line_to_special(next_line))
        ELSE IF tag = <<"B">> THEN Put("bpm_events", convert_line_to_bpm(next_line))
        ELSE IF tag = <<"T", "S">> THEN Put("ts_events", convert_line_to_timesig(next_line))
        ELSE IF tag = <<"E">> THEN Put("events", convert_line_to_event(next_line))
        ELSE Stored(sec)

\* key_value_pairs[key] = value
store_metadata(sec, separated_line) ==
    Stored([sec EXCEPT !.key_value_pairs =
                MapPut(@, separated_line[1], metadata_value(separated_line))])

\* The body of read_section's loop for a line that is not "}".
body_line(sec, next_line) ==
    LET separated_line == split_by_space(next_line)
    IN  IF Len(separated_line) < 3 THEN [throws |-> TRUE, what |-> LineIncomplete]
        ELSE IF string_view_to_int(separated_line[1]).has_value
             THEN dispatch_event(sec, separated_line, next_line)
             ELSE store_metadata(sec, separated_line)

-----------------------------------------------------------------------------
(* The calls of parse_chart, step by step *)

Chart(sections) == [ok |-> TRUE, sections |-> sections]
ParseError(what) == [ok |-> FALSE, what |-> what]

\* A ParseError leaves parse_chart: its locals are gone, the caller has the error.
Throw(what) ==
    /\ results' = Append(results, ParseError(what))
    /\ pc' = "idle"
    /\ data' = << >>
    /\ chart' = << >>
    /\ section' = EmptySection
    /\ UNCHANGED <<todo, src>>

\* The caller hands the next text to parse_chart.
Call ==
    /\ pc = "idle"
    /\ todo # << >>
    /\ data' = Head(todo)
    /\ todo' = Tail(todo)
    /\ chart' = << >>
    /\ pc' = "loop"
    /\ UNCHANGED <<results, section, src>>

\* A mutant: `if` for `while`: at most one section is read.
more_sections_once(d) == d # << >> /\ chart = << >>

\* while (!data.empty())
more_sections(d) == d # << >>

\* parse_chart's loop test, and its return.
LoopTest ==
    /\ pc = "loop"
    /\ IF more_sections(data)
       THEN /\ pc' = "header"
            /\ section' = EmptySection
            /\ UNCHANGED <<todo, results, data, chart, src>>
       ELSE /\ results' = Append(results, Chart(chart))
            /\ pc' = "idle"
            /\ data' = << >>
            /\ chart' = << >>
            /\ UNCHANGED <<todo, section, src>>

\* section.name = strip_square_brackets(break_off_newline(input));
ReadHeader ==
    /\ pc = "header"
    /\ LET l == break_off_newline(data)
       IN  IF l.throws THEN Throw(l.what)
           ELSE LET n == strip_square_brackets(l.line)
                IN  IF n.throws THEN Throw(n.what)
                    ELSE /\ section' = [section EXCEPT !.name = n.value]
                         /\ data' = l.input
                         /\ pc' = "brace"
                         /\ UNCHANGED <<todo, results, chart, src>>

\* if (break_off_newline(input) != "{") throw ...
ReadOpenBrace ==
    /\ pc = "brace"
    /\ LET l == break_off_newline(data)
       IN  IF l.throws THEN Throw(l.what)
           ELSE IF l.line # <<"{">> THEN Throw(NoOpenBrace)
           ELSE /\ data' = l.input
                /\ pc' = "body"
                /\ UNCHANGED <<todo, results, chart, section, src>>

\* One turn of read_section's while (true); on "}" the section is returned
\* and parse_chart pushes it onto chart.sections.
ReadBodyLine ==
    /\ pc = "body"
    /\ LET l == break_off_newline(data)
       IN  IF l.throws THEN Throw(l.what)
           ELSE IF l.line = <<"}">>
           THEN /\ chart' = Append(chart, section)
                /\ data' = l.input
                /\ pc' = "loop"
                /\ section' = EmptySection
                /\ UNCHANGED <<todo, results, src>>
           ELSE LET r == body_line(section, l.line)
                IN  IF r.throws THEN Throw(r.what)
                    ELSE /\ section' = r.section
                         /\ data' = l.input
                         /\ pc' = "body"
                         /\ UNCHANGED <<todo, results, chart, src>>

Next == Call \/ LoopTest \/ ReadHeader \/ ReadOpenBrace \/ ReadBodyLine

-----------------------------------------------------------------------------
(* The texts parsed *)

MaxBodyLines == 2
MaxConcatLines == 1

\* The pieces of a line, joined by single spaces.
Sp(pieces) == JoinSpaces(pieces)

Num10 == <<"2", "1", "4", "7", "4", "8", "3", "6", "4", "7">>   \* INT_MAX
Over10 == IntMinDigits                                           \* INT_MAX + 1

L_note      == Sp(<< <<"0">>, <<"=">>, <<"N">>, <<"1">>, <<"2">> >>)
L_note_max  == Sp(<< <<"7">>, <<"=">>, <<"N">>, Num10, <<"0">> >>)
L_special   == Sp(<< <<"5">>, <<"=">>, <<"S">>, <<"2">>, <<"3">> >>)
L_bpm       == Sp(<< <<"0">>, <<"=">>, <<"B">>, <<"1", "2", "0">> >>)
L_ts        == Sp(<< <<"0">>, <<"=">>, <<"T", "S">>, <<"4">> >>)
L_ts_den    == Sp(<< <<"0">>, <<"=">>, <<"T", "S">>, <<"4">>, <<"3">> >>)
L_ts_other  == Sp(<< <<"3">>, <<"=">>, <<"T", "S">>, <<"6">>, <<"8">> >>)
L_ts_word   == Sp(<< <<"0">>, <<"=">>, <<"T", "S">>, <<"4">>, <<"x">> >>)
L_ts_extra  == Sp(<< <<"0">>, <<"=">>, <<"T", "S">>, <<"4">>, <<"3">>, <<"5">> >>)
L_event     == Sp(<< <<"0">>, <<"=">>, <<"E">>, <<"a", "_", "1">> >>)
L_event_dash == Sp(<< <<"0">>, <<"=">>, <<"E">>, <<"a", "-", "b">> >>)
L_event_quoted == Sp(<< <<"0">>, <<"=">>, <<"E">>, <<"\"", "a", "\"">> >>)
L_unknown   == Sp(<< <<"0">>, <<"=">>, <<"X">>, <<"1">>, <<"2">> >>)
L_name      == Sp(<< <<"N", "a", "m", "e">>, <<"=">>, <<"M", "y">>, <<"S", "o", "n", "g">> >>)
L_name_again == Sp(<< <<"N", "a", "m", "e">>, <<":">>, <<"x">> >>)
L_abc       == Sp(<< <<"a", "b", "c">>, <<"=">>, <<"N">>, <<"1">>, <<"2">> >>)
L_partial   == Sp(<< <<"1", "x">>, <<"=">>, <<"N">>, <<"1">>, <<"2">> >>)
L_negative  == Sp(<< <<"-", "5">>, <<"=">>, <<"N">>, <<"1">>, <<"2">> >>)
L_pos_over  == Sp(<< Over10, <<"=">>, <<"N">>, <<"1">>, <<"2">> >>)
L_fret_over == Sp(<< <<"0">>, <<"=">>, <<"N">>, Over10, <<"2">> >>)
L_bpm_over  == Sp(<< <<"0">>, <<"=">>, <<"B">>, Over10 \o <<"0">> >>)
L_two_spaces == <<"0", " ", " ", "=", " ", "N", " ", "1", " ", "2">>
L_tab_first == <<"0", "\t", "=", " ", "N", " ", "1", " ", "2">>
L_tab_tag   == <<"0", " ", "=", " ", "N", "\t", "1", " ", "2">>
L_wide      == <<"0", " ", "\t", "=", " ", "N", " ", " ", "1", "\t", " ", "2">>
L_wide_ts   == <<"0", " ", "=", " ", "T", "S", " ", "\t", "4", " ", " ", "3">>
L_short     == Sp(<< <<"x">>, <<"=">> >>)

\* Body lines every one of which read_section takes without a ParseError.
WellFormedLines ==
    {L_note, L_note_max, L_special, L_bpm, L_ts, L_ts_den, L_ts_other, L_event, L_unknown,
     L_name, L_name_again}

LinePool ==
    WellFormedLines \cup
    {L_ts_word, L_ts_extra, L_event_dash, L_event_quoted, L_abc, L_partial,
     L_negative, L_pos_over, L_fret_over, L_bpm_over, L_two_spaces, L_tab_first,
     L_tab_tag, L_wide, L_wide_ts, L_short}

SeqsUpTo(S, n) == UNION {[1..k -> S] : k \in 0..n}

Header == <<"[", "F", "o", "o", "]">>

\* Line terminators, with the indentation that may follow them.
LF == <<"\n">>
CRLF == <<"\r", "\n">>
LFIndent == <<"\n", " ", " ">>
Terminators == {LF, CRLF, LFIndent}

\* The lines with `sep` after each but the last.
RECURSIVE Lines(_, _)
Lines(ls, sep) ==
    IF ls = << >> THEN << >>
    ELSE IF Len(ls) = 1 THEN ls[1]
    ELSE ls[1] \o sep \o Lines(Tail(ls), sep)

\* A text with one section: closed by "}" or left open; ended by `tail`.
Text(s) ==
    Lines(<<s.header, s.open>> \o s.body
              \o (IF s.closed THEN << <<"}">> >> ELSE << >>), s.sep) \o s.tail

\* Sections with body lines of `pool`, in every line format.
Bodies(pool, n) ==
    {[header |-> Header, open |-> <<"{">>, body |-> b,
      closed |-> f.closed, sep |-> f.sep, tail |-> << >>] :
         b \in SeqsUpTo(pool, n),
         f \in {[closed |-> TRUE, sep |-> LF], [closed |-> TRUE, sep |-> LFIndent],
                 [closed |-> FALSE, sep |-> CRLF]}}

\* Sections with an empty or one-character header, a bad opening line, or
\* line terminators at the end.
Edges ==
    [header : {Header, << >>, <<"[">>}, open : {<<"{">>, <<"{", " ">>},
     body : SeqsUpTo({L_note, L_name}, 1),
     closed : BOOLEAN, sep : {LF}, tail : {<< >>, LF, CRLF}]

Shapes(pool, n) == Bodies(pool, n) \cup Edges

Idle ==
    /\ results = << >>
    /\ data = << >>
    /\ chart = << >>
    /\ section = EmptySection
    /\ pc = "idle"

\* One call of parse_chart, on a text with one section.
Init ==
    /\ src \in Shapes(LinePool, MaxBodyLines)
    /\ todo = <<Text(src)>>
    /\ Idle

Spec == Init /\ [][Next]_vars

\* One call of parse_chart that runs to its end.  The call is the only thread:
\* a step it can take, it takes.  That is weak fairness of each step; for
\* ReadBodyLine, which can be taken exactly when pc = "body" (each branch of the
\* loop body has a next state), it is written out.
InitFair ==
    /\ src \in Bodies({L_note, L_name, L_short, L_event_dash, L_unknown, L_ts},
                      MaxBodyLines)
              \cup {s \in Edges : s.body = << >> /\ s.tail # CRLF}
    /\ todo = <<Text(src)>>
    /\ Idle

FairSpec ==
    /\ InitFair
    /\ [][Next]_vars
    /\ WF_vars(Call)
    /\ WF_vars(LoopTest)
    /\ WF_vars(ReadHeader)
    /\ WF_vars(ReadOpenBrace)
    /\ ([]<>(pc # "body") \/ []<><<ReadBodyLine>>_vars)

\* The texts whose concatenations are parsed: one section each, some ending
\* without a line terminator, some starting with a space.
ConcatShapes ==
    [header : {Header, <<"[", "B", "]">>}, open : {<<"{">>},
     body : SeqsUpTo({L_note, L_name}, MaxConcatLines),
     closed : {TRUE}, sep : {LF}, tail : {<< >>, LF, CRLF}]

ConcatTexts ==
    {Text(s) : s \in ConcatShapes} \cup {<<" ">> \o Text(s) : s \in ConcatShapes}

\* Three calls of parse_chart: on a, on b, and on a followed immediately by b.
InitConcat ==
    /\ src \in [a : ConcatTexts, b : ConcatTexts]
    /\ todo = <<src.a, src.b, src.a \o src.b>>
    /\ Idle

SpecConcat == InitConcat /\ [][Next]_vars

-----------------------------------------------------------------------------
(* What the properties below speak of *)

\* The line read_section is about to read, when there is one.
NextLineIs(l) ==
    /\ pc = "body"
    /\ ~break_off_newline(data).throws
    /\ break_off_newline(data).line = l

\* The step ends the call with a ParseError.
Thrown ==
    /\ pc' = "idle"
    /\ Len(results') = Len(results) + 1
    /\ ~results'[Len(results')].ok

\* The step stays in the section's body, nothing thrown.
Kept == pc' = "body" /\ results' = results /\ chart' = chart

TypedListsSame ==
    /\ section'.note_events = section.note_events
    /\ section'.special_events = section.special_events
    /\ section'.bpm_events = section.bpm_events
    /\ section'.ts_events = section.ts_events
    /\ section'.events = section.events

AllDigits(tok) == tok # << >> /\ \A i \in 1..Len(tok) : tok[i] \in Digit

Tags == {<<"N">>, <<"S">>, <<"B">>, <<"T", "S">>, <<"E">>}

\* The call of the one text of Spec has ended with this result.
Ended(r) == pc = "idle" /\ todo = << >> /\ results = <<r>>

-----------------------------------------------------------------------------
(* C1 *)

OpenText ==
    /\ src.header = Header
    /\ src.open = <<"{">>
    /\ ~src.closed

\* C1: a text made of a header line, a line "{" and body lines, with no line
\* "}", never gives a Chart; when all its body lines are well formed the
\* ParseError is "No lines left".  ("[Foo]\n{" is the case of no body line.)
C1_TruncatedInput ==
    \A r \in {results[i] : i \in 1..Len(results)} :
        OpenText =>
            /\ ~r.ok
            /\ (\A i \in 1..Len(src.body) : src.body[i] \in WellFormedLines)
                   => r.what = NoLinesLeft

C1_Witness ==
    /\ OpenText
    /\ src.body = <<L_note, L_name>>
    /\ Ended(ParseError(NoLinesLeft))

-----------------------------------------------------------------------------
(* C3 *)

OneSection(r) == r.ok /\ Len(r.sections) = 1

ConcatDone == pc = "idle" /\ todo = << >> /\ Len(results) = 3

SectionsOfBoth ==
    /\ results[3].ok
    /\ results[3].sections = <<results[1].sections[1], results[2].sections[1]>>

\* C3 as claimed: whenever a and b each parse into one section, a followed
\* immediately by b parses into exactly those two sections.
C3_Original ==
    (ConcatDone /\ OneSection(results[1]) /\ OneSection(results[2]))
        => SectionsOfBoth

\* C3, amended: the same, for an a that ends with a whitespace character and
\* a b that starts with a character that is not whitespace.
C3_Concatenation ==
    (/\ ConcatDone
     /\ OneSection(results[1])
     /\ OneSection(results[2])
     /\ src.a[Len(src.a)] \in Whitespace
     /\ src.b[1] \notin Whitespace)
        => SectionsOfBoth

C3_Witness ==
    /\ ConcatDone
    /\ src.a = Text([header |-> Header, open |-> <<"{">>, body |-> <<L_note>>,
                     closed |-> TRUE, sep |-> LF, tail |-> CRLF])
    /\ src.b = Text([header |-> <<"[", "B", "]">>, open |-> <<"{">>, body |-> <<L_name>>,
                     closed |-> TRUE, sep |-> LF, tail |-> << >>])
    /\ OneSection(results[1])
    /\ OneSection(results[2])
    /\ SectionsOfBoth
    /\ results[3].sections[2].key_value_pairs[<<"N", "a", "m", "e">>]
           = <<"M", "y", "S", "o", "n", "g">>

-----------------------------------------------------------------------------
(* C2, C4: lines whose first piece is no integer *)

\* The metadata lines of LinePool, with the key and the value each is to
\* give: the pieces from the third on, joined with nothing between them.
MetadataLines == {L_name, L_name_again, L_abc, L_partial, L_tab_first}

KeyOf(l) ==
    CASE l = L_name -> <<"N", "a", "m", "e">>
      [] l = L_name_again -> <<"N", "a", "m", "e">>
      [] l = L_abc -> <<"a", "b", "c">>
      [] l = L_partial -> <<"1", "x">>
      [] l = L_tab_first -> <<"0", "\t", "=">>

ValueOf(l) ==
    CASE l = L_name -> <<"M", "y", "S", "o", "n", "g">>
      [] l = L_name_again -> <<"x">>
      [] l = L_abc -> <<"N", "1", "2">>
      [] l = L_partial -> <<"N", "1", "2">>
      [] l = L_tab_first -> <<"1", "2">>

\* Lines <tok> = N <int> <int> whose <tok> is not a full integer.
NoteLikeLines == {L_abc, L_partial}

StoredAsMetadata(l) ==
    /\ Kept
    /\ TypedListsSame
    /\ section'.name = section.name
    /\ section'.key_value_pairs = MapPut(section.key_value_pairs, KeyOf(l), ValueOf(l))

\* C2 as claimed: reading "abc = N 1 2", or any <tok> = N <int> <int> whose
\* <tok> is not a full integer, ends the parse with a ParseError.
C2_Original ==
    [][\A l \in NoteLikeLines : NextLineIs(l) => Thrown]_vars

\* C2, amended: such a line raises no error and records no event; it is stored
\* as the metadata entry <tok> -> "N" followed by the two numbers, and the
\* parse goes on.
C2_NonIntegerKey ==
    [][\A l \in NoteLikeLines : NextLineIs(l) => StoredAsMetadata(l)]_vars

C2_Witness ==
    /\ pc = "body"
    /\ src.body = <<L_abc, L_note>>
    /\ section.note_events = <<[position |-> 0, fret |-> 1, length |-> 2]>>
    /\ section.key_value_pairs = MapPut(<< >>, <<"a", "b", "c">>, <<"N", "1", "2">>)

\* The last line of body with key k.
LastWith(body, k) ==
    body[CHOOSE i \in 1..Len(body) :
             /\ body[i] \in MetadataLines /\ KeyOf(body[i]) = k
             /\ \A j \in (i + 1)..Len(body) :
                    ~(body[j] \in MetadataLines /\ KeyOf(body[j]) = k)]

ExpectedPairs(body) ==
    [k \in {KeyOf(body[i]) : i \in {j \in 1..Len(body) : body[j] \in MetadataLines}}
        |-> ValueOf(LastWith(body, k))]

\* C4: a body line of three or more pieces whose first piece is no integer
\* is stored as metadata and never as an event, under its first piece, with
\* the pieces from the third on joined with nothing between them, whatever
\* the second piece is; a section returned holds, for each key, the value of
\* the last such line.
C4_Metadata ==
    /\ [][\A l \in MetadataLines : NextLineIs(l) => StoredAsMetadata(l)]_vars
    /\ [](\A r \in {results[i] : i \in 1..Len(results)} :
              (r.ok /\ Len(r.sections) = 1)
                  => \A k \in DOMAIN ExpectedPairs(src.body) :
                         /\ k \in DOMAIN r.sections[1].key_value_pairs
                         /\ r.sections[1].key_value_pairs[k] = ExpectedPairs(src.body)[k])

C4_Witness ==
    /\ src.body = <<L_name_again, L_name>>
    /\ \E r \in [ok : {TRUE}, sections : {<<s>> : s \in {[EmptySection EXCEPT
                      !.name = <<"F", "o", "o">>,
                      !.key_value_pairs = MapPut(<< >>, <<"N", "a", "m", "e">>,
                                                 <<"M", "y", "S", "o", "n", "g">>)]}}] :
           Ended(r)

-----------------------------------------------------------------------------
(* C5 *)

\* Lines with an integer first piece and a third piece that is no tag.
UntaggedLines == {L_unknown, L_two_spaces, L_tab_tag}

\* C5: a body line with an integer first piece and a third piece that is none
\* of N, S, B, TS, E leaves the section as it was and raises no error; the
\* parse goes on with the next line.
C5_UnknownTagSkipped ==
    [][\A l \in UntaggedLines :
           (/\ NextLineIs(l)
            /\ AllDigits(split_by_space(l)[1])
            /\ split_by_space(l)[3] \notin Tags)
               => (Kept /\ section' = section /\ data' = break_off_newline(data).input)]_vars

C5_Witness ==
    /\ pc = "body"
    /\ src.body = <<L_unknown, L_note>>
    /\ section = [EmptySection EXCEPT
                      !.name = <<"F", "o", "o">>,
                      !.note_events = <<[position |-> 0, fret |-> 1, length |-> 2]>>]

-----------------------------------------------------------------------------
(* C6 *)

\* Lines 0 = E <token>, and the token of each.
GenericLines == {L_event, L_event_dash, L_event_quoted}
TokenOf(l) == SubSeq(l, 7, Len(l))

StoredAsGeneric(l) ==
    /\ Kept
    /\ section' = [section EXCEPT
                       !.events = Append(@, [position |-> 0, data |-> TokenOf(l)])]

\* C6 as claimed: <int> = E <token> is accepted for every token that is a run
\* of characters other than spaces, and adds one generic event with that
\* position and the token as data.
C6_Original ==
    [][\A l \in GenericLines : NextLineIs(l) => StoredAsGeneric(l)]_vars

\* C6, amended: that holds for a token made of letters, digits and
\* underscores only; a token with any other character (a dash, a quote)
\* ends the parse with a ParseError.
C6_GenericEvent ==
    [][\A l \in GenericLines :
           NextLineIs(l) =>
               IF \A i \in 1..Len(TokenOf(l)) : TokenOf(l)[i] \in IdentifierChar
               THEN StoredAsGeneric(l)
               ELSE Thrown]_vars

C6_Witness ==
    /\ pc = "body"
    /\ src.body = <<L_event, L_event_dash>>
    /\ section.events = <<[position |-> 0, data |-> <<"a", "_", "1">>]>>

-----------------------------------------------------------------------------
(* C7 *)

\* Event lines with a number beyond the 32-bit signed range: the position,
\* the fret, the bpm.
OverflowLines == {L_pos_over, L_fret_over, L_bpm_over}

\* C7: an event line with a numeric field beyond the 32-bit signed range ends
\* the parse with a ParseError; nothing is stored for it.
C7_Original ==
    [][\A l \in OverflowLines : NextLineIs(l) => Thrown]_vars

-----------------------------------------------------------------------------
(* C8 *)

\* l is <p> = TS <n>, or <p> = TS <n> <d>, with numbers of one digit.
TsHead == <<" ", "=", " ", "T", "S", " ">>
IsTsLine(l) ==
    Len(l) = 8 /\ l[1] \in Digit /\ SubSeq(l, 2, 7) = TsHead /\ l[8] \in Digit
IsTsLineDen(l) ==
    /\ Len(l) = 10 /\ l[1] \in Digit /\ SubSeq(l, 2, 7) = TsHead
    /\ l[8] \in Digit /\ l[9] = " " /\ l[10] \in Digit

StoredAsTimeSig(p, n, d) ==
    /\ Kept
    /\ section' = [section EXCEPT
                       !.ts_events = Append(@, [position |-> p, numerator |-> n,
                                                denominator |-> d])]

\* C8: <p> = TS <n> gives TimeSigEvent{p, n, 2} and <p> = TS <n> <d> gives
\* TimeSigEvent{p, n, d}; a TS line whose third field is no integer, or with
\* text after the denominator, ends the parse with a ParseError.
C8_TimeSignature ==
    [][(pc = "body" /\ ~break_off_newline(data).throws) =>
           LET l == break_off_newline(data).line
           IN  /\ IsTsLine(l) =>
                      StoredAsTimeSig(DigitVal(l[1]), DigitVal(l[8]), 2)
               /\ IsTsLineDen(l) =>
                      StoredAsTimeSig(DigitVal(l[1]), DigitVal(l[8]), DigitVal(l[10]))
               /\ l \in {L_ts_word, L_ts_extra} => Thrown]_vars

C8_Witness ==
    /\ pc = "body"
    /\ src.body = <<L_ts, L_ts_den>>
    /\ section.ts_events = <<[position |-> 0, numerator |-> 4, denominator |-> 2],
                             [position |-> 0, numerator |-> 4, denominator |-> 3]>>

-----------------------------------------------------------------------------
(* C9 *)

\* l with every run of spaces and tabs made one space.
RECURSIVE SingleSpaced(_)
SingleSpaced(l) ==
    IF l = << >> THEN << >>
    ELSE IF l[1] \in {" ", "\t"}
         THEN IF Len(l) > 1 /\ l[2] \in {" ", "\t"}
              THEN SingleSpaced(Tail(l))
              ELSE <<" ">> \o SingleSpaced(Tail(l))
         ELSE <<l[1]>> \o SingleSpaced(Tail(l))

\* The pieces of a single-spaced line (no piece holds a blank).
RECURSIVE Pieces(_)
Pieces(l) ==
    IF \E i \in 1..Len(l) : l[i] = " "
    THEN LET i == CHOOSE i \in 1..Len(l) : l[i] = " " /\ \A j \in 1..(i - 1) : l[j] # " "
         IN  <<SubSeq(l, 1, i - 1)>> \o Pieces(SubSeq(l, i + 1, Len(l)))
    ELSE <<l>>

\* A single-spaced line has the shape of one of the five event patterns.
EventShaped(l) ==
    LET t == Pieces(l)
    IN  /\ Len(t) >= 4
        /\ AllDigits(t[1])
        /\ t[2] = <<"=">>
        /\ \/ t[3] \in {<<"N">>, <<"S">>} /\ Len(t) = 5 /\ AllDigits(t[4]) /\ AllDigits(t[5])
           \/ t[3] = <<"B">> /\ Len(t) = 4 /\ AllDigits(t[4])
           \/ t[3] = <<"T", "S">> /\ Len(t) = 4 /\ AllDigits(t[4])
           \/ t[3] = <<"T", "S">> /\ Len(t) = 5 /\ AllDigits(t[4]) /\ AllDigits(t[5])
           \/ t[3] = <<"E">> /\ Len(t) = 4 /\ t[4] # << >>

\* The step is the one read_section takes on line l.
SameStepAs(l) ==
    LET r == body_line(section, l)
    IN  IF r.throws
        THEN Thrown /\ results'[Len(results')].what = r.what
        ELSE Kept /\ section' = r.section

\* Cutting l at each space gives the position as first piece and the tag as
\* third piece.
PositionAndTagApart(l) ==
    LET i == FindChar(l, " ")
        rest == RemovePrefix(l, i + 1)
        j == FindChar(rest, " ")
        tail == RemovePrefix(rest, j + 1)
        k == FindChar(tail, " ")
    IN  /\ i # npos /\ j # npos /\ k # npos
        /\ AllDigits(SubSeq(l, 1, i))
        /\ SubSeq(tail, 1, k) \in Tags

\* C9 as claimed: an event line whose fields are separated by any runs of
\* spaces and tabs is taken exactly as the same line written with single spaces.
C9_Original ==
    [][(pc = "body" /\ ~break_off_newline(data).throws) =>
           LET l == break_off_newline(data).line
           IN  EventShaped(SingleSpaced(l)) => SameStepAs(SingleSpaced(l))]_vars

\* C9, amended: that holds when cutting the line at each space character
\* leaves the position alone as the first piece and the tag alone as the third
\* piece (one space after the position, no space next to another before the
\* tag, a space after the tag); runs of spaces and tabs between the later
\* fields, and tabs beside "=", are tolerated.  Any other such line records no
\* event: it is dropped, stored as metadata, or ends the parse with a
\* ParseError.
C9_BlanksTolerated ==
    [][(pc = "body" /\ ~break_off_newline(data).throws) =>
           LET l == break_off_newline(data).line
           IN  EventShaped(SingleSpaced(l)) =>
                   IF PositionAndTagApart(l)
                   THEN SameStepAs(SingleSpaced(l))
                   ELSE Thrown \/ (Kept /\ TypedListsSame)]_vars

C9_Witness ==
    /\ pc = "body"
    /\ src.body = <<L_wide, L_wide_ts>>
    /\ section.note_events = <<[position |-> 0, fret |-> 1, length |-> 2]>>
    /\ section.ts_events = <<[position |-> 0, numerator |-> 4, denominator |-> 3]>>

-----------------------------------------------------------------------------
(* C10 *)

\* C10: every read of a line from a remainder that is not empty leaves a
\* strictly shorter remainder (or ends the call with a ParseError), a read from
\* an empty remainder ends the call with the ParseError "No lines left", and
\* every call of parse_chart ends, with a Chart or with a ParseError.
C10_Terminates ==
    /\ [][(pc = "header" \/ pc = "brace" \/ pc = "body") =>
              IF data = << >>
              THEN Thrown /\ results'[Len(results')].what = NoLinesLeft
              ELSE (Thrown \/ (Len(data') < Len(data)))]_vars
    /\ <>(pc = "idle" /\ todo = << >> /\ Len(results) = 1)

C10_Witness ==
    /\ pc = "body"
    /\ src.body = <<L_note, L_name>>
    /\ src.sep = CRLF
    /\ ~src.closed
    /\ data = << >>
    /\ Len(section.note_events) = 1
    /\ DOMAIN section.key_value_pairs # {}

=============================================================================
